---------------------------- MODULE Spec2Model ----------------------------
(***************************************************************************)
(* Order persistence of the checkout service (src/checkoutservice/db.go): *)
(* SaveOrder, GetOrder, GetUserOrders and maskCreditCard over the two     *)
(* tables that InitDB declares.  The relational engine is modelled by the *)
(* semantics of the statements the code sends it: a transaction buffers   *)
(* its rows until COMMIT, the primary key of orders rejects a duplicate   *)
(* and makes a second writer of an uncommitted key wait, a read sees      *)
(* committed rows only.                                                    *)
(***************************************************************************)
EXTENDS Integers, Sequences, FiniteSets, TLC

\* ------------------------------------------------------------------ bounds
\* Number of SaveOrder invocations in one behaviour.
NumCalls == 2
\* Largest value of the wall clock read by time.Now().
MaxClock == 1
\* Longest card number fed to maskCreditCard in MaskSpec.
MaxCardLen == 6
MaxInits == 2

Calls == 1..NumCalls

\* ------------------------------------------------- schema (InitDB's DDL)
OrderIdLen == 50
UserIdLen == 50
EmailLen == 255
StreetLen == 500
CityLen == 100
StateLen == 100
CountryLen == 100
ZipLen == 20
CardLen == 25
CvvLen == 4
CurrencyLen == 3
TrackingLen == 100
ProductIdLen == 50
\* order_total DECIMAL(10, 2): precision and scale.
DecimalPrecision == 10
DecimalScale == 2
\* Nanos per whole unit: the divisor 1e9 of SaveOrder.
NanosPerUnit == 1000000000

\* ------------------------------------------------------------ pure parts

\* Faulty variants of maskCreditCard: no masking; the length test off by one.
maskCreditCardPlain(cardNumber) == cardNumber

maskCreditCardOffByOne(cardNumber) ==
    IF Len(cardNumber) <= 4
    THEN "****"
    ELSE "****-****-****-" \o SubSeq(cardNumber, Len(cardNumber) - 3, Len(cardNumber))

\* masks all but last 4 digits
maskCreditCard(cardNumber) ==
    IF Len(cardNumber) < 4
    THEN "****"
    ELSE "****-****-****-" \o SubSeq(cardNumber, Len(cardNumber) - 3, Len(cardNumber))

\* orderTotal := float64(total.Units) + float64(total.Nanos)/1e9, kept as the
\* exact value it denotes: whole units and a fraction in nanos, 0 <= nanos < 1e9.
OrderTotalOf(total) ==
    [units |-> total.units + (total.nanos \div NanosPerUnit),
     nanos |-> total.nanos % NanosPerUnit]

RECURSIVE Pow10(_)
Pow10(n) == IF n = 0 THEN 1 ELSE 10 * Pow10(n - 1)

\* Nanos in one unit of the last stored decimal place (10^7 for scale 2).
NanosPerStep == Pow10(9 - DecimalScale)

\* Hundredths of the fraction, rounded half up as the engine's numeric type does.
RoundedFraction(v) == (v.nanos + (NanosPerStep \div 2)) \div NanosPerStep

\* The value fits DECIMAL(10, 2): fewer than 10^(10-2) whole units after rounding.
NumericFits(v) ==
    LET carry == IF RoundedFraction(v) = Pow10(DecimalScale) THEN 1 ELSE 0
    IN  v.units + carry < Pow10(DecimalPrecision - DecimalScale)

\* Faulty variant of ToDecimal: a column that keeps the whole units only.
ToDecimalTruncating(v) == v.units * Pow10(DecimalScale)

\* The stored DECIMAL(10, 2), in hundredths.
ToDecimal(v) == v.units * Pow10(DecimalScale) + RoundedFraction(v)

\* Scan of the DECIMAL column into the float64 OrderTotal.
FromDecimal(c) ==
    [units |-> c \div Pow10(DecimalScale),
     nanos |-> (c % Pow10(DecimalScale)) * NanosPerStep]

DigitChar(d) == SubSeq("0123456789", d + 1, d + 1)

RECURSIVE Itoa(_)
\* The text form in which the int32 CVV reaches its VARCHAR column.
Itoa(n) ==
    IF n < 0 THEN "-" \o Itoa(0 - n)
    ELSE IF n < 10 THEN DigitChar(n)
    ELSE Itoa(n \div 10) \o DigitChar(n % 10)

FitsVarchar(s, n) == Len(s) <= n

\* ---------------------------------------------------------------- errors
\* An error value: the text fmt.Errorf formats, and the cause it wraps with %w
\* ("none" when it wraps nothing).
Nil == [text |-> "nil", cause |-> "none"]
Wrap(text, cause) == [text |-> text, cause |-> cause]
Plain(text) == [text |-> text, cause |-> "none"]
\* An error handed on as it is, not wrapped.
Raw(cause) == [text |-> cause, cause |-> cause]

\* Causes the engine and database/sql hand back.  "canceled" is context.Canceled,
\* "conn" driver.ErrBadConn, "tx_done" sql.ErrTxDone: exported sentinels a caller
\* can test with errors.Is.  "unique_violation" and "value_too_long" are typed
\* driver errors (errors.As).  "untyped" is an error built from text alone, such
\* as database/sql's "sql: database is closed" or a Scan conversion error.
EngineFaults == {"conn"}
ReadFaults == {"untyped"}
Sentinels == {"canceled", "conn", "tx_done", "no_rows", "unique_violation", "value_too_long"}

\* What a caller learns from an error without reading its text: the sentinel or
\* typed cause found in the chain, "unknown" when there is none.
KindOf(e) ==
    IF e = Nil THEN "nil"
    ELSE IF e.cause \in Sentinels THEN e.cause
    ELSE "unknown"

\* ---------------------------------------------------------------- inputs
OrderIds == {"o1", "o2"}
UserIds == {"u1", "u2"}

Address ==
    [street_address |-> "1600 Amphitheatre Pkwy", city |-> "Mountain View",
     state |-> "CA", country |-> "US", zip_code |-> "94043"]

Args(o, u, email, number, cvv, units, nanos, items, tracking) ==
    [orderID |-> o, userID |-> u, email |-> email, address |-> Address,
     creditCard |-> [number |-> number, cvv |-> cvv, month |-> 1, year |-> 2030],
     total |-> [units |-> units, nanos |-> nanos, currency_code |-> "USD"],
     items |-> items, trackingID |-> tracking]

Item(product, quantity) == [product_id |-> product, quantity |-> quantity]

\* The argument lists SaveOrder is called with.
Inputs ==
    { Args("o1", "u1", "a@x.io", "4111111111111111", 123, 10, 500000000,
           <<Item("p1", 1), Item("p2", 2)>>, "t1"),
      Args("o1", "u2", "b@x.io", "12", 7, 0, 0, <<>>, "t2"),
      Args("o2", "u1", "a@x.io", "5500005555554444", 672, 10, 125000000,
           <<Item("p2", 3)>>, "t3") }

\* A nil *pb.Address, *pb.CreditCardInfo, *pb.Money or *pb.CartItem.
NilPointer == [nil |-> TRUE]

\* SaveOrder reads a field of address, creditCard or total (lines 62, 72, 78):
\* one of them is nil.
DerefsNil(a) ==
    a.address = NilPointer \/ a.creditCard = NilPointer \/ a.total = NilPointer

\* Argument lists with a nil pointer, which the signature admits.
NilInputs ==
    LET a == Args("o1", "u1", "a@x.io", "4111111111111111", 123, 10, 500000000,
                  <<Item("p1", 1)>>, "t1")
    IN  { [a EXCEPT !.creditCard = NilPointer],
          [a EXCEPT !.total = NilPointer],
          [a EXCEPT !.address = NilPointer],
          [a EXCEPT !.orderID = "o2", !.items = <<Item("p1", 1), NilPointer>>] }

\* ----------------------------------------------------------------- state
VARIABLES
    orders,        \* committed rows of table orders
    order_items,   \* committed rows of table order_items
    seq,           \* next value of the SERIAL sequence of order_items.id
    clock,         \* the wall clock as time.Now() last read it
    pc,            \* pc[p]: where SaveOrder invocation p stands
    args,          \* args[p]: the arguments of invocation p
    tx,            \* tx[p]: state of p's transaction
    txOrders,      \* txOrders[p]: header rows p's open transaction has written
    txItems,       \* txItems[p]: item rows p's open transaction has written
    idx,           \* idx[p]: position of the range loop over items
    err,           \* err[p]: the variable err of SaveOrder: the cause, "nil" when nil
    ret,           \* ret[p]: the error SaveOrder returns (read by the caller at pc "done")
    ctxDone,       \* ctxDone[p]: the caller's context is cancelled or past its deadline
    during,        \* during[p]: the invocations whose transaction was open when p's began
    rolled,        \* rolled[p]: the deferred function of p has called tx.Rollback()
    rd,            \* outcome of the last GetOrder or GetUserOrders
    schema,        \* the tables and indexes that exist
    initPc,        \* where the running InitDB stands ("idle": none runs)
    initErr,       \* err of the running InitDB: the result of its last ExecContext
    initRets,      \* what the InitDB calls so far have returned, in order
    cardIn,        \* argument of the last maskCreditCard evaluation in MaskSpec
    cardOut        \* its result

storeVars == <<orders, order_items, seq, clock>>
callVars == <<pc, args, tx, txOrders, txItems, idx, err, ret, ctxDone, during, rolled>>
maskVars == <<cardIn, cardOut>>
initVars == <<schema, initPc, initErr, initRets>>
vars == <<orders, order_items, seq, clock, pc, args, tx, txOrders, txItems, idx,
          err, ret, ctxDone, during, rolled, rd, schema, initPc, initErr, initRets,
          cardIn, cardOut>>

\* The objects InitDB creates: by its first statement list (lines 216-237) and
\* by its second (lines 239-247).
OrdersObjects == {"orders", "idx_orders_user_id", "idx_orders_created_at"}
ItemsObjects == {"order_items", "idx_order_items_order_id"}
AllObjects == OrdersObjects \cup ItemsObjects

NoArgs == [nil |-> TRUE]
NoOrder == [nil |-> TRUE]
NoRead == [op |-> "none", key |-> "", order |-> NoOrder, list |-> <<>>, err |-> Nil]

Init ==
    /\ orders = {}
    /\ order_items = {}
    /\ seq = 1
    /\ clock = 0
    /\ pc = [p \in Calls |-> "idle"]
    /\ args = [p \in Calls |-> NoArgs]
    /\ tx = [p \in Calls |-> "none"]
    /\ txOrders = [p \in Calls |-> {}]
    /\ txItems = [p \in Calls |-> {}]
    /\ idx = [p \in Calls |-> 0]
    /\ err = [p \in Calls |-> "nil"]
    /\ ret = [p \in Calls |-> Nil]
    /\ ctxDone = [p \in Calls |-> FALSE]
    /\ during = [p \in Calls |-> {}]
    /\ rd = NoRead
    /\ cardIn = ""
    /\ cardOut = ""
    /\ rolled = [p \in Calls |-> FALSE]
    /\ schema = AllObjects
    /\ initPc = "idle"
    /\ initRets = <<>>
    /\ initErr = "nil"

\* The committed rows of order o.
HeadersOf(o) == {r \in orders : r.order_id = o}
ItemsOf(o) == {r \in order_items : r.order_id = o}

\* -------------------------------------------------------------- SaveOrder

\* The header row of the INSERT INTO orders statement (db.go lines 62-91).
HeaderRow(p, a, now) ==
    [order_id |-> a.orderID,
     user_id |-> a.userID,
     email |-> a.email,
     street_address |-> a.address.street_address,
     city |-> a.address.city,
     state |-> a.address.state,
     country |-> a.address.country,
     zip_code |-> a.address.zip_code,
     credit_card_number |-> maskCreditCard(a.creditCard.number),
     credit_card_cvv |-> Itoa(a.creditCard.cvv),
     credit_card_expiration_month |-> a.creditCard.month,
     credit_card_expiration_year |-> a.creditCard.year,
     order_total |-> ToDecimal(OrderTotalOf(a.total)),
     currency_code |-> a.total.currency_code,
     shipping_tracking_id |-> a.trackingID,
     created_at |-> now,
     xmin |-> p]

\* The engine accepts the header's values for the column types of table orders.
HeaderFits(a) ==
    /\ FitsVarchar(a.orderID, OrderIdLen)
    /\ FitsVarchar(a.userID, UserIdLen)
    /\ FitsVarchar(a.email, EmailLen)
    /\ FitsVarchar(a.address.street_address, StreetLen)
    /\ FitsVarchar(a.address.city, CityLen)
    /\ FitsVarchar(a.address.state, StateLen)
    /\ FitsVarchar(a.address.country, CountryLen)
    /\ FitsVarchar(a.address.zip_code, ZipLen)
    /\ FitsVarchar(maskCreditCard(a.creditCard.number), CardLen)
    /\ FitsVarchar(Itoa(a.creditCard.cvv), CvvLen)
    /\ NumericFits(OrderTotalOf(a.total))
    /\ FitsVarchar(a.total.currency_code, CurrencyLen)
    /\ FitsVarchar(a.trackingID, TrackingLen)

\* Faulty variant: the loop takes the items from the last to the first.
ItemRowReversed(p, a, i) ==
    [id |-> seq, order_id |-> a.orderID,
     product_id |-> a.items[Len(a.items) + 1 - i].product_id,
     quantity |-> a.items[Len(a.items) + 1 - i].quantity, xmin |-> p]

\* The item row of the INSERT INTO order_items statement; id is the SERIAL default.
ItemRow(p, a, i) ==
    [id |-> seq, order_id |-> a.orderID, product_id |-> a.items[i].product_id,
     quantity |-> a.items[i].quantity, xmin |-> p]

\* Faulty variant: an engine that lets a second writer of the key go on.
BlockedNever(p, o) == FALSE

\* PRIMARY KEY of orders: an uncommitted row with the same key, written by another
\* open transaction, makes the insert wait for that transaction to end.
Blocked(p, o) ==
    \E q \in Calls \ {p} : tx[q] = "open" /\ \E r \in txOrders[q] : r.order_id = o

\* Faulty variant: a table without the primary key.
DuplicateKeyNever(o) == FALSE

\* PRIMARY KEY of orders: a committed row with the same key rejects the insert.
DuplicateKey(o) == \E r \in orders : r.order_id = o

\* Faulty variant: the statement runs on the pool (db.ExecContext), outside the
\* transaction, and is committed at once.
ExecOrderOnPool(p, row) ==
    /\ orders' = orders \cup {row}
    /\ UNCHANGED txOrders

\* tx.ExecContext of the header insert: the row belongs to the transaction.
ExecOrderInTx(p, row) ==
    /\ txOrders' = [txOrders EXCEPT ![p] = @ \cup {row}]
    /\ UNCHANGED orders

\* Faulty variant: the item insert runs on the pool.
ExecItemOnPool(p, row) ==
    /\ order_items' = order_items \cup {row}
    /\ UNCHANGED txItems

\* tx.ExecContext of an item insert.
ExecItemInTx(p, row) ==
    /\ txItems' = [txItems EXCEPT ![p] = @ \cup {row}]
    /\ UNCHANGED order_items

\* Faulty variant: a transaction begun without the caller's context.
CtxErrIgnored(p) == "nil"

\* What a statement of p's transaction sees of the caller's context.
CtxErr(p) == IF ctxDone[p] THEN "canceled" ELSE "nil"

\* A caller invokes SaveOrder; invocations are numbered in the order they start.
Call(p, a) ==
    /\ pc[p] = "idle"
    /\ \A q \in Calls : q < p => pc[q] # "idle"
    /\ pc' = [pc EXCEPT ![p] = "begin"]
    /\ args' = [args EXCEPT ![p] = a]
    /\ UNCHANGED <<storeVars, tx, txOrders, txItems, idx, err, ret, ctxDone, during, rolled, rd, maskVars, initVars>>

\* The caller's cancellation or deadline fires while SaveOrder runs.
Cancel(p) ==
    /\ pc[p] \notin {"idle", "done", "panicked"}
    /\ ~ctxDone[p]
    /\ ctxDone' = [ctxDone EXCEPT ![p] = TRUE]
    /\ UNCHANGED <<storeVars, pc, args, tx, txOrders, txItems, idx, err, ret, during, rolled, rd, maskVars, initVars>>

\* tx, err := os.db.BeginTx(ctx, nil), and the return when it fails.
BeginTx(p) ==
    /\ pc[p] = "begin"
    /\ \E f \in EngineFaults \cup {"nil"} :
         LET cause == IF CtxErr(p) # "nil" THEN CtxErr(p) ELSE f
         IN  IF cause # "nil"
             THEN /\ err' = [err EXCEPT ![p] = cause]
                  /\ ret' = [ret EXCEPT ![p] = Wrap("failed to begin transaction", cause)]
                  /\ pc' = [pc EXCEPT ![p] = "done"]
                  /\ UNCHANGED <<tx, during>>
             ELSE /\ tx' = [tx EXCEPT ![p] = "open"]
                  /\ during' = [during EXCEPT ![p] = {q \in Calls : tx[q] = "open"}]
                  /\ pc' = [pc EXCEPT ![p] = "insertOrder"]
                  /\ UNCHANGED <<err, ret>>
    /\ UNCHANGED <<storeVars, args, txOrders, txItems, idx, ctxDone, rolled, rd, maskVars, initVars>>

\* time.Now() (line 90): the wall clock has stood still or moved on since it was
\* last read.
Now == clock' \in {t \in {clock, clock + 1} : t <= MaxClock}

\* A statement of SaveOrder failed: err is set and the function returns the
\* wrapped error; the deferred function runs next.
Fail(p, text, cause) ==
    /\ err' = [err EXCEPT ![p] = cause]
    /\ ret' = [ret EXCEPT ![p] = Wrap(text, cause)]
    /\ pc' = [pc EXCEPT ![p] = "rollback"]

\* The header insert (lines 62-95).
InsertOrder(p) ==
    /\ pc[p] = "insertOrder"
    /\ ~DerefsNil(args[p])
    /\ LET a == args[p]
           row == HeaderRow(p, a, clock')
       IN  \E f \in EngineFaults \cup {"nil"} :
             LET cause ==
                   IF CtxErr(p) # "nil" THEN CtxErr(p)
                   ELSE IF f # "nil" THEN f
                   ELSE IF ~HeaderFits(a) THEN "value_too_long"
                   ELSE IF DuplicateKey(a.orderID) THEN "unique_violation"
                   ELSE "nil"
             IN  /\ (CtxErr(p) = "nil" /\ f = "nil" /\ HeaderFits(a)) => ~Blocked(p, a.orderID)
                 /\ IF cause # "nil"
                    THEN /\ Fail(p, "failed to insert order", cause)
                         /\ UNCHANGED <<orders, txOrders, idx, clock>>
                    ELSE /\ Now
                         /\ ExecOrderInTx(p, row)
                         /\ idx' = [idx EXCEPT ![p] = 1]
                         /\ pc' = [pc EXCEPT ![p] = "loop"]
                         /\ UNCHANGED <<err, ret>>
    /\ UNCHANGED <<order_items, seq, args, tx, txItems, ctxDone, during, rolled, rd, maskVars, initVars>>

\* One iteration of the range loop over items (lines 102-111).
InsertItem(p) ==
    /\ pc[p] = "loop"
    /\ idx[p] <= Len(args[p].items)
    /\ args[p].items[idx[p]] # NilPointer
    /\ LET a == args[p]
           row == ItemRow(p, a, idx[p])
       IN  \E f \in EngineFaults \cup {"nil"} :
             LET cause ==
                   IF CtxErr(p) # "nil" THEN CtxErr(p)
                   ELSE IF f # "nil" THEN f
                   ELSE IF ~FitsVarchar(row.product_id, ProductIdLen) THEN "value_too_long"
                   ELSE "nil"
             IN  IF cause # "nil"
                 THEN /\ Fail(p, "failed to insert order item", cause)
                      /\ UNCHANGED <<order_items, txItems, idx, seq>>
                 ELSE /\ ExecItemInTx(p, row)
                      /\ seq' = seq + 1
                      /\ idx' = [idx EXCEPT ![p] = @ + 1]
                      /\ UNCHANGED <<pc, err, ret>>
    /\ UNCHANGED <<orders, clock, args, tx, txOrders, ctxDone, during, rolled, rd, maskVars, initVars>>

\* Faulty variant: COMMIT publishes the header and drops the items.
CommitHeaderOnly(p) ==
    /\ orders' = orders \cup txOrders[p]
    /\ UNCHANGED order_items

\* COMMIT: the rows of the transaction become visible together.
CommitRows(p) ==
    /\ orders' = orders \cup txOrders[p]
    /\ order_items' = order_items \cup txItems[p]

\* Faulty variant: the result of tx.Commit() is not tested.
CommitFailedNever(cause) == FALSE

\* The test of line 113: err = tx.Commit(); err != nil.
CommitFailed(cause) == cause # "nil"

\* tx.Commit() after the loop (lines 113-118).
Commit(p) ==
    /\ pc[p] = "loop"
    /\ idx[p] > Len(args[p].items)
    /\ \E f \in EngineFaults \cup {"nil"} :
         LET cause == IF CtxErr(p) # "nil" THEN CtxErr(p) ELSE f
         IN  /\ IF CtxErr(p) # "nil"
                THEN \* Commit returns the context's error and leaves the transaction as it is
                     UNCHANGED <<orders, order_items, tx, txOrders, txItems>>
                ELSE IF f # "nil"
                THEN \* the engine refuses the commit and aborts the transaction
                     /\ tx' = [tx EXCEPT ![p] = "aborted"]
                     /\ txOrders' = [txOrders EXCEPT ![p] = {}]
                     /\ txItems' = [txItems EXCEPT ![p] = {}]
                     /\ UNCHANGED <<orders, order_items>>
                ELSE /\ CommitRows(p)
                     /\ tx' = [tx EXCEPT ![p] = "committed"]
                     /\ txOrders' = [txOrders EXCEPT ![p] = {}]
                     /\ txItems' = [txItems EXCEPT ![p] = {}]
             /\ IF CommitFailed(cause)
                THEN Fail(p, "failed to commit transaction", cause)
                ELSE \* log.Infof(...); return nil
                     /\ err' = [err EXCEPT ![p] = cause]
                     /\ pc' = [pc EXCEPT ![p] = "done"]
                     /\ UNCHANGED ret
    /\ UNCHANGED <<seq, clock, args, idx, ctxDone, during, rolled, rd, maskVars, initVars>>

\* Faulty variant: the deferred function tests nothing and rolls nothing back.
DeferredNoRollback(p) == UNCHANGED <<tx, txOrders, txItems, rolled>>

\* The deferred function (lines 56-60): if err != nil { tx.Rollback() }.  A
\* transaction that is already over makes Rollback a no-op.
Deferred(p) ==
    IF err[p] # "nil"
    THEN /\ rolled' = [rolled EXCEPT ![p] = TRUE]
         /\ IF tx[p] = "open"
            THEN /\ tx' = [tx EXCEPT ![p] = "rolledback"]
                 /\ txOrders' = [txOrders EXCEPT ![p] = {}]
                 /\ txItems' = [txItems EXCEPT ![p] = {}]
            ELSE UNCHANGED <<tx, txOrders, txItems>>
    ELSE UNCHANGED <<tx, txOrders, txItems, rolled>>

\* The error return of SaveOrder: the deferred function runs, the caller resumes.
Return(p) ==
    /\ pc[p] = "rollback"
    /\ Deferred(p)
    /\ pc' = [pc EXCEPT ![p] = "done"]
    /\ UNCHANGED <<storeVars, args, idx, err, ret, ctxDone, during, rd, maskVars, initVars>>

\* ----------------------------------------------------------------- InitDB
\* What can fail in db.ExecContext(ctx, ...) apart from the statements themselves:
\* the connection, and the 10 s deadline of line 249.
DdlFaults == {"conn", "deadline"}

\* Faulty variant: CREATE without IF NOT EXISTS refuses an object that exists.
DdlErrorStrict(objects) == IF objects \cap schema # {} THEN "duplicate_table" ELSE "nil"

\* What the engine answers to CREATE ... IF NOT EXISTS for objects of which some
\* may exist (lines 217, 235, 236, 240, 246): a notice, never an error.
DdlError(objects) == "nil"

\* Faulty variant: the result of the first ExecContext is not tested.
OrdersStepFailedNever(cause) == FALSE

\* The test of line 253.
OrdersStepFailed(cause) == cause # "nil"

\* InitDB is called (lines 215-250): nothing has run yet.
InitCall ==
    /\ initPc = "idle"
    /\ Len(initRets) < MaxInits
    /\ initPc' = "orders"
    /\ initErr' = "nil"
    /\ UNCHANGED <<storeVars, callVars, rd, maskVars, schema, initRets>>

\* _, err := db.ExecContext(ctx, createOrdersTable) and its test (lines 252-255).
\* The statement list runs as one implicit transaction: all of it or none.
InitOrders ==
    /\ initPc = "orders"
    /\ \E f \in DdlFaults \cup {"nil"} :
         LET cause == IF f # "nil" THEN f ELSE DdlError(OrdersObjects)
         IN  /\ initErr' = cause
             /\ schema' = IF cause = "nil" THEN schema \cup OrdersObjects ELSE schema
             /\ IF OrdersStepFailed(cause)
                THEN /\ initRets' = Append(initRets, Wrap("failed to create orders table", cause))
                     /\ initPc' = "idle"
                ELSE /\ initPc' = "items"
                     /\ UNCHANGED initRets
    /\ UNCHANGED <<storeVars, callVars, rd, maskVars>>

\* _, err = db.ExecContext(ctx, createOrderItemsTable), its test and the final
\* return nil (lines 257-263). REFERENCES orders(order_id) needs table orders.
InitItems ==
    /\ initPc = "items"
    /\ \E f \in DdlFaults \cup {"nil"} :
         LET cause == IF f # "nil" THEN f
                      ELSE IF "orders" \notin schema /\ "order_items" \notin schema
                      THEN "undefined_table"
                      ELSE DdlError(ItemsObjects)
         IN  /\ initErr' = cause
             /\ schema' = IF cause = "nil" THEN schema \cup ItemsObjects ELSE schema
             /\ initRets' = Append(initRets,
                                   IF cause # "nil"
                                   THEN Wrap("failed to create order_items table", cause)
                                   ELSE Nil)
             /\ initPc' = "idle"
    /\ UNCHANGED <<storeVars, callVars, rd, maskVars>>

\* ----------------------------------------------------------------- reads

\* Scan of one row of orders into an Order (the sixteen selected columns).
Decode(r) ==
    [OrderID |-> r.order_id,
     UserID |-> r.user_id,
     Email |-> r.email,
     StreetAddress |-> r.street_address,
     City |-> r.city,
     State |-> r.state,
     Country |-> r.country,
     ZipCode |-> r.zip_code,
     CreditCardNumber |-> r.credit_card_number,
     CreditCardCVV |-> r.credit_card_cvv,
     CreditCardExpirationMonth |-> r.credit_card_expiration_month,
     CreditCardExpirationYear |-> r.credit_card_expiration_year,
     OrderTotal |-> FromDecimal(r.order_total),
     CurrencyCode |-> r.currency_code,
     ShippingTrackingID |-> r.shipping_tracking_id,
     CreatedAt |-> r.created_at]

\* The error GetOrder returns for a failure of QueryRowContext(...).Scan with
\* the given cause (lines 151-156).
GetOrderErr(cause) ==
    IF cause = "no_rows"
    THEN Plain("order not found")
    ELSE Wrap("failed to query order", cause)

\* What GetOrder(ctx, orderID) can return (lines 122-159) when the query meets
\* fault f ("nil": none): the order and the error.
GetOrderReturns(o, f) ==
    IF f # "nil"
    THEN {[order |-> NoOrder, err |-> GetOrderErr(f)]}
    ELSE IF ~\E r \in orders : r.order_id = o
    THEN {[order |-> NoOrder, err |-> GetOrderErr("no_rows")]}
    ELSE {[order |-> Decode(r), err |-> Nil] : r \in {x \in orders : x.order_id = o}}

\* GetOrder(ctx, orderID): a point lookup among the committed rows.
GetOrder(o) ==
    /\ \E f \in ReadFaults \cup {"nil"} :
         \E res \in GetOrderReturns(o, f) :
            rd' = [op |-> "GetOrder", key |-> o, order |-> res.order, list |-> <<>>,
                   err |-> res.err]
    /\ UNCHANGED <<storeVars, callVars, maskVars, initVars>>

\* Faulty variant: the query without its WHERE clause.
UserRowsAll(u) == orders

\* WHERE user_id = $1 over the committed rows.
UserRows(u) == {r \in orders : r.user_id = u}

\* Faulty variant: ORDER BY created_at ASC.
OrderedAsc(s) == \A i, j \in 1..Len(s) : i < j => s[i].created_at <= s[j].created_at

\* ORDER BY created_at DESC; rows of equal created_at come in any order.
OrderedDesc(s) == \A i, j \in 1..Len(s) : i < j => s[i].created_at >= s[j].created_at

\* The row sequences the query may deliver for the rows S.
Deliveries(S) ==
    {s \in [1..Cardinality(S) -> S] :
        /\ \A i, j \in 1..Cardinality(S) : i # j => s[i] # s[j]
        /\ OrderedDesc(s)}

DecodeAll(s) == [i \in 1..Len(s) |-> Decode(s[i])]

\* GetUserOrders(ctx, userID) (lines 162-204).
GetUserOrders(u) ==
    /\ \E s \in Deliveries(UserRows(u)), f \in ReadFaults \cup {"nil"}, k \in 0..NumCalls :
         /\ k <= Len(s)
         /\ \/ \* no failure: every row is scanned, rows.Err() is nil
               /\ f = "nil" /\ k = Len(s)
               /\ rd' = [op |-> "GetUserOrders", key |-> u, order |-> NoOrder,
                         list |-> DecodeAll(s), err |-> Nil]
            \/ \* QueryContext fails
               /\ f # "nil" /\ k = 0
               /\ rd' = [op |-> "GetUserOrders", key |-> u, order |-> NoOrder,
                         list |-> <<>>, err |-> Wrap("failed to query user orders", f)]
            \/ \* Scan of row k fails
               /\ f # "nil" /\ k >= 1
               /\ rd' = [op |-> "GetUserOrders", key |-> u, order |-> NoOrder,
                         list |-> <<>>, err |-> Wrap("failed to scan order", f)]
            \/ \* rows.Next() stops on an error after k rows: return orders, rows.Err()
               /\ f # "nil"
               /\ rd' = [op |-> "GetUserOrders", key |-> u, order |-> NoOrder,
                         list |-> DecodeAll(SubSeq(s, 1, k)), err |-> Raw(f)]
    /\ UNCHANGED <<storeVars, callVars, maskVars, initVars>>

\* ------------------------------------------------------------ the system
NextSave ==
    \/ \E p \in Calls, a \in Inputs : Call(p, a)
    \/ \E p \in Calls : Cancel(p)
    \/ \E p \in Calls : BeginTx(p)
    \/ \E p \in Calls : InsertOrder(p)
    \/ \E p \in Calls : InsertItem(p)
    \/ \E p \in Calls : Commit(p)
    \/ \E p \in Calls : Return(p)

Next ==
    \/ NextSave
    \/ \E o \in OrderIds : GetOrder(o)
    \/ \E u \in UserIds : GetUserOrders(u)

Spec == Init /\ [][Next]_vars

\* The steps SaveOrder invocation p takes by itself once called: sequential code
\* that runs on.
Step(p) ==
    BeginTx(p) \/ InsertOrder(p) \/ InsertItem(p) \/ Commit(p) \/ Return(p)

\* The writers alone, each running on once called.
FairSpec == Init /\ [][NextSave]_vars /\ \A p \in Calls : WF_vars(Step(p))

\* ------------------------------------------- maskCreditCard on its own
Digits == {"1", "4", "9"}

RECURSIVE CardsOfLen(_)
CardsOfLen(n) ==
    IF n = 0 THEN {""} ELSE {s \o c : s \in CardsOfLen(n - 1), c \in Digits}

CardNumbers == UNION {CardsOfLen(n) : n \in 0..MaxCardLen}

MaskInit ==
    /\ Init!1 /\ Init!2 /\ Init!3 /\ Init!4 /\ Init!5 /\ Init!6 /\ Init!7 /\ Init!8
    /\ Init!9 /\ Init!10 /\ Init!11 /\ Init!12 /\ Init!13 /\ Init!14 /\ Init!15
    /\ Init!18 /\ Init!19 /\ Init!20 /\ Init!21 /\ Init!22
    /\ cardIn \in CardNumbers
    /\ cardOut = "unset"

Mask ==
    /\ cardOut = "unset"
    /\ cardOut' = maskCreditCard(cardIn)
    /\ UNCHANGED <<storeVars, callVars, rd, cardIn, initVars>>

MaskNext == Mask

MaskSpec == MaskInit /\ [][MaskNext]_vars

\* ------------------------------------------------------ nil arguments
\* The nil pointer dereference: of creditCard, total or address before the
\* header INSERT (lines 62, 72, 78), or of a nil item in the loop (line 105).
\* The panic unwinds SaveOrder: its deferred function runs, with err as the last
\* assignment left it, and the panic goes on to the caller.
Panic(p) ==
    /\ \/ pc[p] = "insertOrder" /\ DerefsNil(args[p])
       \/ /\ pc[p] = "loop"
          /\ idx[p] <= Len(args[p].items)
          /\ args[p].items[idx[p]] = NilPointer
    /\ Deferred(p)
    /\ pc' = [pc EXCEPT ![p] = "panicked"]
    /\ UNCHANGED <<storeVars, args, idx, err, ret, ctxDone, during, rd, maskVars, initVars>>

NextPanic ==
    \/ \E p \in Calls, a \in Inputs \cup NilInputs : Call(p, a)
    \/ \E p \in Calls : Cancel(p)
    \/ \E p \in Calls : BeginTx(p)
    \/ \E p \in Calls : InsertOrder(p)
    \/ \E p \in Calls : InsertItem(p)
    \/ \E p \in Calls : Commit(p)
    \/ \E p \in Calls : Return(p)
    \/ \E p \in Calls : Panic(p)

\* The writers, called with nil pointers too.
PanicSpec == Init /\ [][NextPanic]_vars

\* ------------------------------------------------- deletion of an order
\* Faulty variant: order_items references orders without ON DELETE CASCADE
\* enforced, so a deleted header takes no item row with it.
CascadedItemsNone(o) == {}

\* The item rows the engine deletes with the header of o: those referencing it
\* (REFERENCES orders(order_id) ON DELETE CASCADE, line 242).
CascadedItems(o) == ItemsOf(o)

\* A client of the database deletes the header row of order o (the service has
\* no such statement); the engine applies the schema of lines 239-247.
DeleteOrder(o) ==
    /\ HeadersOf(o) # {}
    /\ orders' = orders \ HeadersOf(o)
    /\ order_items' = order_items \ CascadedItems(o)
    /\ UNCHANGED <<seq, clock, callVars, rd, maskVars, initVars>>

NextCascade ==
    \/ NextSave
    \/ \E o \in OrderIds : DeleteOrder(o)

\* The writers and deletions, without reads.
CascadeSpec == Init /\ [][NextCascade]_vars

\* --------------------------------------------------- InitDB at start-up
\* The schemas InitDB can find: an index needs its table, and order_items needs
\* orders, which it references.
Schemas ==
    {S \in SUBSET AllObjects :
        /\ ("idx_orders_user_id" \in S \/ "idx_orders_created_at" \in S) => "orders" \in S
        /\ "idx_order_items_order_id" \in S => "order_items" \in S
        /\ "order_items" \in S => "orders" \in S}

\* The rows an earlier run of the service (written as invocation 0) has left:
\* none, or those of one saved order.
StoredBefore ==
    {[orders |-> {}, order_items |-> {}, seq |-> 1]} \cup
    {[orders |-> {HeaderRow(0, a, 0)},
      order_items |-> {[id |-> i, order_id |-> a.orderID,
                        product_id |-> a.items[i].product_id,
                        quantity |-> a.items[i].quantity, xmin |-> 0] :
                       i \in 1..Len(a.items)},
      seq |-> Len(a.items) + 1] : a \in Inputs}

InitAtStartup ==
    /\ schema \in Schemas
    /\ \E st \in StoredBefore :
         /\ (st.orders # {} => {"orders", "order_items"} \subseteq schema)
         /\ orders = st.orders
         /\ order_items = st.order_items
         /\ seq = st.seq
    /\ Init!4 /\ Init!5 /\ Init!6 /\ Init!7 /\ Init!8 /\ Init!9 /\ Init!10
    /\ Init!11 /\ Init!12 /\ Init!13 /\ Init!14 /\ Init!15 /\ Init!16 /\ Init!17
    /\ Init!18 /\ Init!20 /\ Init!21 /\ Init!22

NextInit == InitCall \/ InitOrders \/ InitItems

InitSpec == InitAtStartup /\ [][NextInit]_vars

\* ================================================================ claims

Returned(p) == pc[p] = "done"
Failed(p) == Returned(p) /\ ret[p] # Nil
Succeeded(p) == Returned(p) /\ ret[p] = Nil /\ tx[p] = "committed"
NotFoundResult == [order |-> NoOrder, err |-> Plain("order not found")]

\* The committed rows of order o are exactly the rows of invocation p: its one
\* header and one item row for each element of its item list.
WholeOrderOf(p, o) ==
    /\ args[p] # NoArgs
    /\ args[p].orderID = o
    /\ Cardinality(HeadersOf(o)) = 1
    /\ \A r \in HeadersOf(o) :
         /\ r.xmin = p
         /\ r.user_id = args[p].userID
         /\ r.shipping_tracking_id = args[p].trackingID
    /\ Cardinality(ItemsOf(o)) = Len(args[p].items)
    /\ \A r \in ItemsOf(o) : r.xmin = p
    /\ \A i \in 1..Len(args[p].items) :
         \E r \in ItemsOf(o) :
            /\ r.product_id = args[p].items[i].product_id
            /\ r.quantity = args[p].items[i].quantity

\* C1: a SaveOrder call that returned an error, whatever the stage that failed,
\* has left no header row and no item row of its own in the committed store;
\* and when no other call has committed its orderID, the store holds no row of
\* that orderID and GetOrder(orderID) returns not-found.
C1_FailedSaveLeavesNothing ==
    \A p \in Calls :
        Failed(p) =>
            /\ \A r \in orders : r.xmin # p
            /\ \A r \in order_items : r.xmin # p
            /\ txOrders[p] = {} /\ txItems[p] = {}
            /\ (~\E q \in Calls \ {p} :
                    tx[q] = "committed" /\ args[q].orderID = args[p].orderID)
               => /\ HeadersOf(args[p].orderID) = {}
                  /\ ItemsOf(args[p].orderID) = {}
                  /\ GetOrderReturns(args[p].orderID, "nil") = {NotFoundResult}

\* C1 witness: a call has returned the error of its second item insert, after
\* its header and first item were written, and another returned a commit error.
C1_Witness ==
    \E p \in Calls :
        /\ Failed(p)
        /\ ret[p].text = "failed to insert order item"
        /\ idx[p] = 2
        /\ \E q \in Calls : Failed(q) /\ ret[q].text = "failed to commit transaction"

\* C2: in every state, for each orderID the committed store (what a read sees)
\* holds either nothing of the order or the whole order of one call: its header
\* and all its item rows.
C2_NoPartialOrderVisible ==
    \A o \in OrderIds :
        \/ HeadersOf(o) = {} /\ ItemsOf(o) = {}
        \/ \E p \in Calls : tx[p] = "committed" /\ WholeOrderOf(p, o)

\* C2 witness: a transaction has written its header and the first of its two
\* items, and a GetOrder of that orderID has answered not-found; another order
\* is committed whole.
C2_Witness ==
    \E p \in Calls :
        /\ tx[p] = "open"
        /\ txOrders[p] # {}
        /\ Cardinality(txItems[p]) = 1
        /\ Len(args[p].items) = 2
        /\ rd.op = "GetOrder" /\ rd.key = args[p].orderID
        /\ rd.err = Plain("order not found")
        /\ \E q \in Calls : tx[q] = "committed" /\ ItemsOf(args[q].orderID) # {}

\* Neither an engine fault nor a cancellation hit the call: it succeeded or was
\* refused for its key.
Undisturbed(p) == err[p] \in {"nil", "unique_violation"}

\* The transactions of p and q were open at the same time.
Overlapped(p, q) == p \in during[q] \/ q \in during[p]

\* C3: of two SaveOrder calls with the same orderID whose transactions
\* overlapped, neither disturbed by a fault of the engine or a cancellation and
\* with no third writer of that orderID, exactly one returns success and the
\* other the write failure of the header insert; the committed store holds the
\* whole order of the successful call and no row of the other.
C3_OneOfTwoConcurrentSavesWins ==
    \A p, q \in Calls :
        ( /\ p # q
          /\ Returned(p) /\ Returned(q)
          /\ args[p].orderID = args[q].orderID
          /\ Overlapped(p, q)
          /\ Undisturbed(p) /\ Undisturbed(q)
          /\ \A x \in Calls \ {p, q} :
               args[x] = NoArgs \/ args[x].orderID # args[p].orderID )
        => \E w \in {p, q} :
             LET l == CHOOSE x \in {p, q} : x # w
             IN  /\ Succeeded(w)
                 /\ ret[l] = Wrap("failed to insert order", "unique_violation")
                 /\ tx[l] = "rolledback"
                 /\ WholeOrderOf(w, args[w].orderID)
                 /\ \A r \in orders \cup order_items : r.xmin # l

\* C3 witness: two calls with the same orderID and different contents overlapped
\* and both returned, one with success and one with the duplicate-key failure.
C3_Witness ==
    \E p, q \in Calls :
        /\ p # q
        /\ Returned(p) /\ Returned(q)
        /\ args[p].orderID = args[q].orderID
        /\ args[p].userID # args[q].userID
        /\ Overlapped(p, q)
        /\ Succeeded(p)
        /\ err[q] = "unique_violation"

\* C4: a SaveOrder call that reaches its header insert when its orderID is
\* already committed fails there with an error, and no step of any call changes
\* the committed header row or item rows of an orderID once it is committed.
C4_DuplicateOrderIdRejected ==
    [][ /\ \A p \in Calls :
             ( /\ pc[p] = "insertOrder"
               /\ pc'[p] # "insertOrder"
               /\ HeadersOf(args[p].orderID) # {} )
             => /\ pc'[p] = "rollback"
                /\ ret'[p].text = "failed to insert order"
                /\ ret'[p] # Nil
                /\ orders' = orders
                /\ order_items' = order_items
        /\ \A o \in OrderIds :
             HeadersOf(o) # {} =>
                /\ {r \in orders' : r.order_id = o} = HeadersOf(o)
                /\ {r \in order_items' : r.order_id = o} = ItemsOf(o)
      ]_vars

\* C4 witness: a call began after another had committed the same orderID and
\* has returned the duplicate-key failure of its header insert.
C4_Witness ==
    \E p, q \in Calls :
        /\ p # q
        /\ tx[q] = "committed"
        /\ args[p] # NoArgs /\ args[p].orderID = args[q].orderID
        /\ ~Overlapped(p, q)
        /\ Returned(p)
        /\ ret[p] = Wrap("failed to insert order", "unique_violation")

\* The errors GetOrder returns for a read failure other than a missing row.
OtherReadFailures == {GetOrderErr(f) : f \in ReadFaults \cup {"conn", "canceled"}}

\* C5: the error GetOrder returns for an orderID with no row has a kind of its
\* own: a caller can tell it from every other read failure without reading
\* the error text.
C5_NotFoundHasItsOwnKind ==
    (rd.op = "GetOrder" /\ HeadersOf(rd.key) = {} /\ rd.err = GetOrderErr("no_rows"))
    => \A e \in OtherReadFailures : KindOf(e) # KindOf(rd.err)

\* The Order that GetOrder is to return for the arguments a of a successful
\* SaveOrder: every field as given, the card number masked.
EqualsInput(order, a) ==
    /\ order.OrderID = a.orderID
    /\ order.UserID = a.userID
    /\ order.Email = a.email
    /\ order.StreetAddress = a.address.street_address
    /\ order.City = a.address.city
    /\ order.State = a.address.state
    /\ order.Country = a.address.country
    /\ order.ZipCode = a.address.zip_code
    /\ order.CreditCardNumber = maskCreditCard(a.creditCard.number)
    /\ order.CreditCardCVV = Itoa(a.creditCard.cvv)
    /\ order.CreditCardExpirationMonth = a.creditCard.month
    /\ order.CreditCardExpirationYear = a.creditCard.year
    /\ order.OrderTotal = OrderTotalOf(a.total)
    /\ order.CurrencyCode = a.total.currency_code
    /\ order.ShippingTrackingID = a.trackingID

\* C6: a GetOrder that follows a successful SaveOrder of the same orderID
\* returns a record equal to the input in every field, except the card number,
\* which is the masked form.
C6_SaveThenGetReturnsInput ==
    (rd.op = "GetOrder" /\ rd.err = Nil)
    => \E p \in Calls :
         /\ Succeeded(p)
         /\ args[p].orderID = rd.key
         /\ EqualsInput(rd.order, args[p])

MaskChars == {"*", "-"}
CharAt(s, i) == SubSeq(s, i, i)

\* Of the card number n the stored text shows the last four characters at most:
\* every other position holds a mask character.
ShowsLastFourOnly(stored, n) ==
    IF Len(n) < 4
    THEN \A i \in 1..Len(stored) : CharAt(stored, i) \in MaskChars
    ELSE /\ Len(stored) >= 4
         /\ \A i \in 1..(Len(stored) - 4) : CharAt(stored, i) \in MaskChars
         /\ SubSeq(stored, Len(stored) - 3, Len(stored)) = SubSeq(n, Len(n) - 3, Len(n))

\* C7: in every reachable state the card number of every header row, committed
\* or written by an open transaction, is the masked form of the number given to
\* the call that wrote it: nothing of the number but its last four characters
\* is stored.
C7_StoredCardIsMasked ==
    \A r \in orders \cup UNION {txOrders[p] : p \in Calls} :
        LET n == args[r.xmin].creditCard.number
        IN  /\ ShowsLastFourOnly(r.credit_card_number, n)
            /\ Len(n) < 4 => r.credit_card_number = "****"
            /\ Len(n) >= 4 => Len(r.credit_card_number) = 19

\* C7 witness: the store holds the header of a call given a sixteen-digit number
\* and the header of a call given a two-character number.
C7_Witness ==
    /\ \E r \in orders : Len(args[r.xmin].creditCard.number) = 16
    /\ \E r \in orders : Len(args[r.xmin].creditCard.number) = 2

\* C8: maskCreditCard returns "****" for every input of fewer than 4 characters,
\* and for every input of 4 or more characters "****-****-****-" followed by
\* the last 4 characters of the input: 19 characters whatever the input length.
C8_MaskShape ==
    cardOut # "unset" =>
        IF Len(cardIn) < 4
        THEN cardOut = "****"
        ELSE /\ Len(cardOut) = 19
             /\ SubSeq(cardOut, 1, 15) = "****-****-****-"
             /\ \A i \in 1..4 :
                  CharAt(cardOut, 15 + i) = CharAt(cardIn, Len(cardIn) - 4 + i)

\* C8 witness: maskCreditCard was applied to an input of exactly 4 characters.
C8_Witness == cardOut # "unset" /\ Len(cardIn) = 4

\* C9: a GetUserOrders that returns no error returns exactly the committed
\* orders of that user, each once, most recent creation time first; for a user
\* with no committed order the empty sequence.
C9_UserOrdersExactAndNewestFirst ==
    [][ (rd' # rd /\ rd'.op = "GetUserOrders" /\ rd'.err = Nil)
        => LET mine == {r \in orders : r.user_id = rd'.key}
               got == rd'.list
           IN  /\ Len(got) = Cardinality(mine)
               /\ {got[i] : i \in 1..Len(got)} = {Decode(r) : r \in mine}
               /\ \A i, j \in 1..Len(got) :
                    i < j => got[i].CreatedAt >= got[j].CreatedAt
               /\ \A i \in 1..Len(got) : got[i].UserID = rd'.key
      ]_vars

\* C9 witness: GetUserOrders has returned the two committed orders of one user,
\* the later created first.
C9_Witness ==
    /\ rd.op = "GetUserOrders" /\ rd.err = Nil
    /\ Len(rd.list) = 2
    /\ rd.list[1].CreatedAt > rd.list[2].CreatedAt
    /\ Cardinality({r \in orders : r.user_id = rd.key}) = 2

\* C10: when the caller's context is done while the transaction of a SaveOrder
\* call is open, the call eventually returns an error with its transaction
\* rolled back, and no row of it is in the committed store.
C10_CancelledSaveRollsBack ==
    \A p \in Calls :
        (ctxDone[p] /\ tx[p] = "open")
        ~> ( /\ Failed(p)
             /\ tx[p] = "rolledback"
             /\ \A r \in orders \cup order_items : r.xmin # p )

\* C10, the part a finite run decides: no row of a call is in the committed
\* store while its context is done, and a call whose context was done with its
\* transaction begun returns an error.
C10_CancelledSaveNeverVisible ==
    \A p \in Calls :
        ctxDone[p] =>
            /\ \A r \in orders \cup order_items : r.xmin # p
            /\ Returned(p) => ret[p] # Nil /\ tx[p] # "open"

\* C10 witness: the context was done after the header and every item of a call
\* were written, and the call has returned the error of its commit.
C10_Witness ==
    \E p \in Calls :
        /\ ctxDone[p]
        /\ Failed(p)
        /\ ret[p] = Wrap("failed to commit transaction", "canceled")
        /\ tx[p] = "rolledback"
        /\ Len(args[p].items) = 2

\* ------------------------------------------------------------------- C11
ExistingObjectRefused ==
    {Wrap(t, "duplicate_table") :
        t \in {"failed to create orders table", "failed to create order_items table"}}

\* C11: InitDB is idempotent. No call of InitDB fails because an object it
\* creates exists already, with or without stored rows, so that two calls in
\* sequence that meet no connection fault and no deadline both return nil; and
\* once a call has returned nil, no step of a later call changes the schema or
\* the stored rows.
C11_InitDBIdempotent ==
    [][ /\ \A i \in 1..Len(initRets') : initRets'[i] \notin ExistingObjectRefused
        /\ (initRets' # initRets /\ initErr' = "nil") => initRets'[Len(initRets')] = Nil
        /\ (\E i \in 1..Len(initRets) : initRets[i] = Nil)
              => /\ schema' = schema
                 /\ orders' = orders
                 /\ order_items' = order_items ]_vars

\* Two calls in sequence on a schema that holds an order and its items have both
\* returned nil.
C11_Witness ==
    /\ initRets = <<Nil, Nil>>
    /\ orders # {}
    /\ order_items # {}
    /\ schema = AllObjects


\* ------------------------------------------------------------------- C12
\* The contexts the code puts in front of a cause, one for each stage.
StageTexts ==
    {"failed to begin transaction", "failed to insert order",
     "failed to insert order item", "failed to commit transaction",
     "failed to query order", "failed to query user orders",
     "failed to scan order",
     "failed to create orders table", "failed to create order_items table"}

NamesItsStage(e) == e.text \in StageTexts /\ e.cause # "none"

\* C12: every failure inside an operation comes back to the caller wrapped with
\* the context of the stage that failed: each error SaveOrder, GetOrder,
\* GetUserOrders or InitDB has returned is nil, the not-found answer, or a cause
\* under the text of its stage.
C12_EveryFailureNamesItsStage ==
    /\ \A p \in Calls : Returned(p) /\ ret[p] # Nil => NamesItsStage(ret[p])
    /\ rd.err \notin {Nil, Plain("order not found")} => NamesItsStage(rd.err)
    /\ \A i \in 1..Len(initRets) : initRets[i] # Nil => NamesItsStage(initRets[i])


\* ------------------------------------------------------------------- C13
\* The rows invocation p has written, committed or still in its transaction.
HeadersBy(p) == {r \in orders \cup txOrders[p] : r.xmin = p}
ItemsBy(p) == {r \in order_items \cup txItems[p] : r.xmin = p}

\* The item rows T, taken by ascending id, carry the pairs of items in order.
InInputOrder(T, o, items) ==
    /\ Cardinality(T) = Len(items)
    /\ \E f \in [1..Len(items) -> T] :
         /\ \A i, j \in 1..Len(items) : i < j => f[i].id < f[j].id
         /\ \A i \in 1..Len(items) :
              /\ f[i].order_id = o
              /\ f[i].product_id = items[i].product_id
              /\ f[i].quantity = items[i].quantity

\* C13: a successful SaveOrder with n items (n >= 0) has committed exactly one
\* header row for orderID and exactly n item rows referencing it, which by
\* ascending id carry the (product, quantity) pairs of the input in input order;
\* and the header is inserted before any item: an invocation that has written an
\* item row has written its header.
C13_OneHeaderAndItemsInInputOrder ==
    \A p \in Calls :
        /\ ItemsBy(p) # {} => HeadersBy(p) # {}
        /\ (Returned(p) /\ ret[p] = Nil) =>
              /\ Cardinality(HeadersOf(args[p].orderID)) = 1
              /\ \A r \in HeadersOf(args[p].orderID) : r.xmin = p
              /\ InInputOrder(ItemsOf(args[p].orderID), args[p].orderID, args[p].items)

\* A SaveOrder with two different items has returned nil.
C13_Witness ==
    \E p \in Calls : Returned(p) /\ ret[p] = Nil /\ Len(args[p].items) = 2

\* The empty list: a SaveOrder with no item and one with one item have both
\* returned nil.
C13_WitnessEmptyList ==
    \E p, q \in Calls :
        /\ Returned(p) /\ ret[p] = Nil /\ Len(args[p].items) = 1
        /\ Returned(q) /\ ret[q] = Nil /\ Len(args[q].items) = 0


\* ------------------------------------------------------------------- C14
\* C14: SaveOrder returns nil only after its transaction has committed: an
\* invocation that has returned nil has a committed transaction and its header
\* and every one of its item rows are in the committed store; and an invocation
\* whose commit failed, or whose transaction is not committed, has returned an
\* error.
C14_NilOnlyAfterCommit ==
    \A p \in Calls :
        Returned(p) =>
            /\ ret[p] = Nil =>
                  /\ tx[p] = "committed"
                  /\ \E r \in orders : r.xmin = p /\ r.order_id = args[p].orderID
                  /\ Cardinality({r \in order_items : r.xmin = p}) = Len(args[p].items)
            /\ (tx[p] # "committed" \/ err[p] # "nil") => ret[p] # Nil

\* One invocation has returned nil after its commit and another has returned the
\* failure of its commit.
C14_Witness ==
    \E p, q \in Calls :
        /\ Returned(p) /\ ret[p] = Nil /\ tx[p] = "committed"
        /\ Returned(q) /\ ret[q].text = "failed to commit transaction"


\* ------------------------------------------------------------------- C15
\* C15: on every error return of SaveOrder after its transaction was opened,
\* the rollback is issued before the error reaches the caller: an invocation
\* that has returned an error and had begun a transaction has called
\* tx.Rollback(), its transaction is no longer open and holds no row.
C15_RollbackBeforeErrorReturn ==
    \A p \in Calls :
        (Returned(p) /\ ret[p] # Nil /\ tx[p] # "none") =>
            /\ rolled[p]
            /\ tx[p] \in {"rolledback", "aborted"}
            /\ txOrders[p] = {}
            /\ txItems[p] = {}

\* An invocation has returned the failure of an item insert after its header and
\* an item were written in its transaction, which it has rolled back.
C15_Witness ==
    \E p \in Calls :
        /\ Returned(p)
        /\ ret[p].text = "failed to insert order item"
        /\ idx[p] = 2
        /\ rolled[p]
        /\ tx[p] = "rolledback"


\* ------------------------------------------------------------------- C16
\* C16: in every reachable state every committed order_items row references an
\* order whose header row is committed, also after deletions, since deleting a
\* header removes the item rows of its order in the same step; and every item
\* row inside a transaction references a header that is committed or written by
\* the same transaction.
C16_ItemsReferenceAnExistingOrder ==
    /\ \A r \in order_items : HeadersOf(r.order_id) # {}
    /\ \A p \in Calls : \A r \in txItems[p] :
           \E h \in orders \cup txOrders[p] : h.order_id = r.order_id

\* An order saved with items has been deleted, header and items, while the items
\* of another order are still stored.
C16_Witness ==
    \E p, q \in Calls :
        /\ Returned(p) /\ ret[p] = Nil /\ Len(args[p].items) > 0
        /\ HeadersOf(args[p].orderID) = {}
        /\ ItemsOf(args[p].orderID) = {}
        /\ Returned(q) /\ ret[q] = Nil
        /\ ItemsOf(args[q].orderID) # {}


\* ------------------------------------------------------------------- C17
\* C17: the total SaveOrder persists is whole units plus nanos / 10^9 for every
\* (units, nanos) with 0 <= nanos < 10^9, and GetOrder reads that value back:
\* the total of every header row, and the OrderTotal of every order GetOrder has
\* returned, is the total of the call that wrote the row.
C17_PersistedTotalIsUnitsPlusNanos ==
    /\ \A p \in Calls : \A r \in orders \cup txOrders[p] :
           r.xmin = p => FromDecimal(r.order_total) = OrderTotalOf(args[p].total)
    /\ (rd.op = "GetOrder" /\ rd.err = Nil) =>
           \E p \in Calls :
               /\ args[p] # NoArgs
               /\ args[p].orderID = rd.key
               /\ rd.order.OrderTotal = OrderTotalOf(args[p].total)


\* ------------------------------------------------------------------- C18
\* C18: whenever GetUserOrders returns a non-nil error (query failure, scan
\* failure on any row, or iteration failure after some rows were decoded), it
\* returns no orders with it.
C18_ErrorComesWithNoOrders ==
    (rd.op = "GetUserOrders" /\ rd.err # Nil) => rd.list = <<>>


\* ------------------------------------------------------------------- C19
\* C19: SaveOrder never exits with its transaction still open: on every exit
\* after a successful begin, by return or by the panic of a nil address,
\* creditCard, total or item, the transaction is committed or rolled back.
C19_NoExitWithOpenTransaction ==
    \A p \in Calls : pc[p] \in {"done", "panicked"} => tx[p] # "open"


\* ------------------------------------------------------------------- C20
LastInitRet == initRets'[Len(initRets')]

\* C20: InitDB applies its two DDL steps in a fixed order and stops at the first
\* failure. The order_items step runs only after the orders step of the same
\* call succeeded; a failed orders step ends the call with its error and runs
\* nothing more; nil is returned only by the order_items step when it succeeded
\* too, with every object in place; and a failed order_items step returns its
\* error and leaves the schema, with the orders table of the first step, as it
\* was.
C20_InitDBStepsInOrder ==
    [][ /\ initPc' = "items" =>
              /\ initPc = "orders"
              /\ initErr' = "nil"
              /\ OrdersObjects \subseteq schema'
        /\ (initPc = "orders" /\ initErr' # "nil") =>
              /\ initPc' = "idle"
              /\ initRets' = Append(initRets, Wrap("failed to create orders table", initErr'))
              /\ schema' = schema
        /\ (initRets' # initRets /\ LastInitRet = Nil) =>
              /\ initPc = "items"
              /\ initErr' = "nil"
              /\ schema' = AllObjects
        /\ (initPc = "items" /\ initErr' # "nil") =>
              /\ initRets' = Append(initRets, Wrap("failed to create order_items table", initErr'))
              /\ schema' = schema
              /\ OrdersObjects \subseteq schema' ]_vars

\* The only call so far has returned the failure of the order_items step, and
\* the orders table and its indexes exist without the order_items table.
C20_Witness ==
    /\ Len(initRets) = 1
    /\ initRets[1].text = "failed to create order_items table"
    /\ initPc = "idle"
    /\ OrdersObjects \subseteq schema
    /\ "order_items" \notin schema

====
